---- MODULE Spec2Model ----
(***************************************************************************)
(* Model of src/main.rs: the scraper (scrape_status and its field          *)
(* parsers), the shared AppState (last_api_request, status) behind two     *)
(* mutexes, the /status handler, and the scheduler task spawned by main.   *)
(*                                                                         *)
(* Text is a sequence of tokens.  A token is a piece of text that holds    *)
(* neither whitespace nor the separator "bis", or it is one whitespace     *)
(* character, or it is the separator "bis" itself.  Time is in minutes.    *)
(***************************************************************************)
EXTENDS Integers, Sequences, FiniteSets, TLC

\* ---------------------------------------------------------------- bounds
MaxTime == 25
TimeStep == 5
NumHandlers == 2
MaxPeriodLen == 5
FairMaxTime == 10
TimelyMaxTime == 30

\* ------------------------------------------------------------- constants
IntervalMinutes == 15
WindowMinutes == 20

\* Option<T>: None is the empty sequence, Some(x) the sequence of x alone
None == << >>
Some(x) == << x >>
IsSome(o) == o # None
Unwrap(o) == o[1]

\* the empty string and the empty Vec
Empty == << >>

\* ------------------------------------------------------------------ text
IsSpace(c) == c \in {" ", "\n"}

RECURSIVE TrimStart(_)
TrimStart(s) ==
    IF s = Empty THEN Empty
    ELSE IF IsSpace(Head(s)) THEN TrimStart(Tail(s)) ELSE s

RECURSIVE TrimEnd(_)
TrimEnd(s) ==
    IF s = Empty THEN Empty
    ELSE IF IsSpace(s[Len(s)]) THEN TrimEnd(SubSeq(s, 1, Len(s) - 1)) ELSE s

\* str::trim
Trim(s) == TrimEnd(TrimStart(s))

\* str::split("bis"): the pieces between the occurrences of the separator
RECURSIVE SplitBis(_, _)
SplitBis(s, cur) ==
    IF s = Empty THEN << cur >>
    ELSE IF Head(s) = "bis" THEN << cur >> \o SplitBis(Tail(s), Empty)
    ELSE SplitBis(Tail(s), Append(cur, Head(s)))

\* mutant: the end is all the text after the first separator
parse_period_rest(period) ==
    LET parts == SplitBis(period, Empty)
        start == IF Len(parts) >= 1 THEN Trim(parts[1]) ELSE Empty
        end   == IF Len(parts) >= 2
                 THEN Trim(SubSeq(period, Len(parts[1]) + 2, Len(period)))
                 ELSE Empty
    IN  << start, end >>

\* parse_period: parts.get(0) and parts.get(1), trimmed, "" when missing
parse_period(period) ==
    LET parts == SplitBis(period, Empty)
        start == IF Len(parts) >= 1 THEN Trim(parts[1]) ELSE Empty
        end   == IF Len(parts) >= 2 THEN Trim(parts[2]) ELSE Empty
    IN  << start, end >>

\* Option<&str>::unwrap_or(""), then trim: a cell that the selector does not
\* match, or that has no text node, reads as the empty string
CellText(cell) == IF cell = None THEN Empty ELSE Trim(Unwrap(cell))

\* ------------------------------------------------------------------ page
\* A row of the page (tr.traffic-information-infos): the value of its
\* data-transportation attribute and of its id attribute (None when absent),
\* the first text of each cell the parsers select (None when nothing
\* matches), the whole text of the period cell, and the first text of the
\* first "p:last-child" below the row.
Row(t, i, st, ev, pe, lo, de) ==
    [transportation |-> t, id |-> i, station |-> st, event |-> ev,
     period |-> pe, location |-> lo, detail |-> de]

ElevRowFull ==
    Row(Some("elevator"), Some("row1"), Some(<<" ", "Hauptbahnhof">>),
        Some(<<"Ausfall", " ">>), Some(<<"09:00", " ", "bis", " ", "17:00">>),
        Some(<<"Aufzug", " ", "2">>), Some(<<"Ersatzverkehr">>))
ElevRowSparse ==
    Row(Some("elevator"), Some("row2"), None, None, None, None, None)
ElevRowNoId ==
    Row(Some("elevator"), None, Some(<<"Oberbarmen">>), Some(<<"Ausfall">>),
        Some(<<"ab", " ", "08:00">>), None, None)
SubwayRow ==
    Row(Some("subway"), Some("row3"), None, Some(<<"Verspaetung">>), None,
        Some(<<" ", "Vohwinkel", "\n">>), None)
BusRow ==
    Row(Some("bus"), Some("row1"), None, Some(<<"Umleitung">>), None,
        Some(<<"Barmen">>), Some(<<"Linie", " ", "611">>))
NoModeRow ==
    Row(None, None, None, None, None, None, None)

\* the documents the upstream server answers with
Pages ==
    { Empty,
      << ElevRowFull, SubwayRow >>,
      << BusRow, ElevRowSparse >>,
      << SubwayRow, NoModeRow >>,
      << SubwayRow, ElevRowNoId >> }

\* the status codes it answers with
HttpCodes == {200, 500}


\* row.value().attr("data-transportation").unwrap_or("")
Transportation(row) == IF row.transportation = None THEN "" ELSE Unwrap(row.transportation)

\* Selector::parse(&format!("#{} p:last-child", id.unwrap_or(""))):
\* "# p:last-child" is not a selector, so the unwrap panics
SelectorParses(row) == row.id # None

\* document.select(&info_selector).next(): the first element of the whole
\* document, in document order, that is a "p:last-child" below an element
\* carrying the row's id
RECURSIVE InfoLookup(_, _)
InfoLookup(document, id) ==
    IF document = Empty THEN None
    ELSE IF Head(document).id = id /\ Head(document).detail # None
         THEN Head(document).detail
         ELSE InfoLookup(Tail(document), id)

ElevatorStatus(st, ev, s, e, lo, inf) ==
    [station |-> st, event |-> ev, start_time |-> s, end_time |-> e,
     location |-> lo, info |-> inf]

parse_elevator_status(row, document) ==
    LET period == CellText(row.period)
        times  == parse_period(period)
    IN  ElevatorStatus(CellText(row.station), CellText(row.event),
                       times[1], times[2], CellText(row.location),
                       CellText(InfoLookup(document, row.id)))

\* format!("{}: {}", event, location)
parse_schwebebahn_status(row) ==
    CellText(row.event) \o <<":", " ">> \o CellText(row.location)

\* "Keine aktuellen Störungen", "Keine Störungen", "Alle Aufzüge sind in
\* Betrieb" (the umlauts written out)
SchwebebahnPlaceholder == << <<"Keine", " ", "aktuellen", " ", "Stoerungen">> >>

\* mutant: the texts of event and info are swapped
ElevatorPlaceholderSwapped ==
    ElevatorStatus(Empty, <<"Alle", " ", "Aufzuege", " ", "sind", " ", "in", " ", "Betrieb">>,
                   Empty, Empty, Empty, <<"Keine", " ", "Stoerungen">>)

ElevatorPlaceholder ==
    ElevatorStatus(Empty, <<"Keine", " ", "Stoerungen">>, Empty, Empty, Empty,
                   <<"Alle", " ", "Aufzuege", " ", "sind", " ", "in", " ", "Betrieb">>)

\* the loop over the rows, in document order
RECURSIVE ExtractLines(_)
ExtractLines(rows) ==
    IF rows = Empty THEN Empty
    ELSE IF Transportation(Head(rows)) = "subway"
         THEN << parse_schwebebahn_status(Head(rows)) >> \o ExtractLines(Tail(rows))
         ELSE ExtractLines(Tail(rows))

RECURSIVE ExtractElevators(_, _)
ExtractElevators(rows, document) ==
    IF rows = Empty THEN Empty
    ELSE IF Transportation(Head(rows)) = "elevator"
         THEN << parse_elevator_status(Head(rows), document) >>
                  \o ExtractElevators(Tail(rows), document)
         ELSE ExtractElevators(Tail(rows), document)

\* scrape_status panics when an elevator row makes the info selector invalid
ScrapePanics(document) ==
    \E i \in 1..Len(document) :
        /\ Transportation(document[i]) = "elevator"
        /\ ~SelectorParses(document[i])

\* mutant: the placeholder is pushed whatever the list holds
LinesAndPlaceholder(lines) == lines \o SchwebebahnPlaceholder

LinesOrPlaceholder(lines) ==
    IF lines = Empty THEN SchwebebahnPlaceholder ELSE lines

\* mutant: no placeholder is pushed
ElevatorsNoPlaceholder(elevs) == elevs

ElevatorsOrPlaceholder(elevs) ==
    IF elevs = Empty THEN << ElevatorPlaceholder >> ELSE elevs

\* scrape_status after the fetch: Ok((schwebebahn_status, elevator_status))
ScrapeResult(document) ==
    [schwebebahn |-> LinesOrPlaceholder(ExtractLines(document)),
     elevators   |-> ElevatorsOrPlaceholder(ExtractElevators(document, document))]

\* ----------------------------------------------------------------- state
VARIABLES
    now,               \* the clock read by Utc::now() and by the interval
    last_api_request,  \* AppState.last_api_request
    status,            \* AppState.status
    clockLock,         \* owner of the last_api_request mutex
    statusLock,        \* owner of the status mutex
    spc,               \* position of the scheduler task
    deadline,          \* next deadline of the tokio interval
    scraped,           \* value returned by scrape_status, while it is installed
    hpc,               \* position of each /status handler call
    resp,              \* the Status a handler call has cloned for its response
    chk,               \* history: whether the last should_check call saw a request
                       \*          time, how old it was, and when the call was made
    checks,            \* history: number of should_check calls made
    fetches,           \* history: fetches sent since the last should_check call
    outcome,           \* history: how the last scrape cycle ended
    fetched,           \* history: the upstream response of the last scrape cycle
    lastInstalled,     \* history: the last Status written in full
    everOk,            \* history: some scrape cycle has installed its result
    late,              \* history: the last scrape cycle took an interval or longer
    arg,               \* the argument of a function called on its own
    ret                \* the value that call returned

vars == << now, last_api_request, status, clockLock, statusLock, spc, deadline,
           scraped, hpc, resp, chk, checks, fetches, outcome, fetched,
           lastInstalled, everOk, late, arg, ret >>

pureVars == << arg, ret >>
schedVars == << spc, deadline, scraped >>
histVars  == << chk, checks, fetches, outcome, fetched, lastInstalled, everOk,
               late >>

Handlers == 1..NumHandlers
\* the owner of a mutex: None when unlocked, Some(thread) when locked; the
\* handler calls are threads 1..NumHandlers, the scheduler task the next one
Free == None
Sched == Some(NumHandlers + 1)

\* mutant: the store starts with a time stamp
InitStatusStamped == [schwebebahn |-> Empty, elevators |-> Empty, last_updated |-> Some(0)]

\* main: the Status the store is built with
InitStatus == [schwebebahn |-> Empty, elevators |-> Empty, last_updated |-> None]

Init ==
    /\ now = 0
    /\ last_api_request = None
    /\ status = InitStatus
    /\ clockLock = Free
    /\ statusLock = Free
    /\ spc = "check"
    /\ deadline = 0
    /\ scraped = None
    /\ hpc = [h \in Handlers |-> "idle"]
    /\ resp = [h \in Handlers |-> None]
    /\ chk = None
    /\ checks = 0
    /\ fetches = 0
    /\ outcome = "none"
    /\ fetched = None
    /\ lastInstalled = InitStatus
    /\ everOk = FALSE
    /\ late = FALSE
    /\ arg = None
    /\ ret = None

\* ------------------------------------------------------------------ time
Advance ==
    /\ now + TimeStep <= MaxTime
    /\ now' = now + TimeStep
    /\ UNCHANGED << pureVars, last_api_request, status, clockLock, statusLock, schedVars,
                    hpc, resp, histVars >>

\* ------------------------------------------------------- /status handler
\* a request is routed to status()
Request(h) ==
    /\ hpc[h] = "idle"
    /\ hpc' = [hpc EXCEPT ![h] = "start"]
    /\ UNCHANGED << pureVars, now, last_api_request, status, clockLock, statusLock,
                    schedVars, resp, histVars >>

\* data.last_api_request.lock().unwrap()
HLockClock(h) ==
    /\ hpc[h] = "start"
    /\ clockLock = Free
    /\ clockLock' = Some(h)
    /\ hpc' = [hpc EXCEPT ![h] = "locked"]
    /\ UNCHANGED << pureVars, now, last_api_request, status, statusLock, schedVars, resp,
                    histVars >>

\* mutant: the request time is recorded only while none is recorded
HWriteClockOnce(h) ==
    /\ hpc[h] = "locked"
    /\ last_api_request' = IF last_api_request = None THEN Some(now) ELSE last_api_request
    /\ hpc' = [hpc EXCEPT ![h] = "wrote"]
    /\ UNCHANGED << pureVars, now, status, clockLock, statusLock, schedVars, resp, histVars >>

\* *last_request = Some(Utc::now())
HWriteClock(h) ==
    /\ hpc[h] = "locked"
    /\ last_api_request' = Some(now)
    /\ hpc' = [hpc EXCEPT ![h] = "wrote"]
    /\ UNCHANGED << pureVars, now, status, clockLock, statusLock, schedVars, resp, histVars >>

\* data.status.lock().unwrap()
HLockStatus(h) ==
    /\ hpc[h] = "wrote"
    /\ statusLock = Free
    /\ statusLock' = Some(h)
    /\ hpc' = [hpc EXCEPT ![h] = "cloning"]
    /\ UNCHANGED << pureVars, now, last_api_request, status, clockLock, schedVars, resp,
                    histVars >>

\* .clone(); the guard is a temporary, dropped at the end of the statement
HClone(h) ==
    /\ hpc[h] = "cloning"
    /\ resp' = [resp EXCEPT ![h] = Some(status)]
    /\ statusLock' = Free
    /\ hpc' = [hpc EXCEPT ![h] = "respond"]
    /\ UNCHANGED << pureVars, now, last_api_request, status, clockLock, schedVars, histVars >>

\* HttpResponse::Ok().json(status); last_request is dropped on return
HRespond(h) ==
    /\ hpc[h] = "respond"
    /\ clockLock' = Free
    /\ resp' = [resp EXCEPT ![h] = None]
    /\ hpc' = [hpc EXCEPT ![h] = "idle"]
    /\ UNCHANGED << pureVars, now, last_api_request, status, statusLock, schedVars, histVars >>

\* ------------------------------------------------------------- scheduler
\* should_check: state.last_api_request.lock().unwrap()
SchedLockClock ==
    /\ spc = "check"
    /\ clockLock = Free
    /\ clockLock' = Sched
    /\ spc' = "gate"
    /\ UNCHANGED << pureVars, now, last_api_request, status, statusLock, deadline, scraped,
                    hpc, resp, histVars >>

\* mutant: a request exactly as old as the window still counts
should_check_inclusive(req, t) ==
    IF req = None THEN FALSE ELSE t - Unwrap(req) <= WindowMinutes

\* mutant: the tick interval is taken for the window
should_check_interval(req, t) ==
    IF req = None THEN FALSE ELSE t - Unwrap(req) < IntervalMinutes

\* should_check: the match on *last_request
should_check(req, t) ==
    IF req = None THEN FALSE ELSE t - Unwrap(req) < WindowMinutes

\* mutant: the guard of last_api_request outlives should_check
SchedGateKeepsGuard ==
    /\ spc = "gate"
    /\ spc' = IF should_check(last_api_request, now) THEN "fetch" ELSE "tick"
    /\ chk' = Some([set |-> IsSome(last_api_request),
                     age |-> IF IsSome(last_api_request)
                             THEN now - Unwrap(last_api_request) ELSE 0,
                     at  |-> now])
    /\ checks' = checks + 1
    /\ fetches' = 0
    /\ outcome' = "none"
    /\ fetched' = None
    /\ late' = FALSE
    /\ UNCHANGED << pureVars, now, last_api_request, status, clockLock, statusLock,
                    deadline, scraped, hpc, resp, lastInstalled, everOk >>

\* should_check returns (dropping the guard) and the loop branches on it
SchedGate ==
    /\ spc = "gate"
    /\ clockLock' = Free
    /\ spc' = IF should_check(last_api_request, now) THEN "fetch" ELSE "tick"
    /\ chk' = Some([set |-> IsSome(last_api_request),
                     age |-> IF IsSome(last_api_request)
                             THEN now - Unwrap(last_api_request) ELSE 0,
                     at  |-> now])
    /\ checks' = checks + 1
    /\ fetches' = 0
    /\ outcome' = "none"
    /\ fetched' = None
    /\ late' = FALSE
    /\ UNCHANGED << pureVars, now, last_api_request, status, statusLock, deadline, scraped,
                    hpc, resp, lastInstalled, everOk >>

\* scrape_status: client.get(url).send()
SchedSend ==
    /\ spc = "fetch"
    /\ spc' = "fetching"
    /\ fetches' = fetches + 1
    /\ outcome' = "pending"
    /\ UNCHANGED << pureVars, now, last_api_request, status, clockLock, statusLock, deadline,
                    scraped, hpc, resp, chk, checks, fetched, lastInstalled, everOk,
                    late >>

\* mutant: a failed cycle empties the store
SchedFetchErrClears ==
    /\ spc = "fetching"
    /\ spc' = "tick"
    /\ outcome' = "err"
    /\ fetched' = None
    /\ late' = (now - Unwrap(chk).at >= IntervalMinutes)
    /\ status' = [schwebebahn |-> Empty, elevators |-> Empty, last_updated |-> None]
    /\ UNCHANGED << pureVars, now, last_api_request, clockLock, statusLock, deadline,
                    scraped, hpc, resp, chk, checks, fetches, lastInstalled, everOk >>

\* send().await? or text().await? is an Err: eprintln!, end of the cycle
SchedFetchErr ==
    /\ spc = "fetching"
    /\ spc' = "tick"
    /\ outcome' = "err"
    /\ fetched' = None
    /\ late' = (now - Unwrap(chk).at >= IntervalMinutes)
    /\ UNCHANGED << pureVars, now, last_api_request, status, clockLock, statusLock, deadline,
                    scraped, hpc, resp, chk, checks, fetches, lastInstalled, everOk >>

\* send().await?.text().await? is Ok for a response of any status code; the
\* body is parsed and the rows are extracted
SchedFetchOk ==
    /\ spc = "fetching"
    /\ \E code \in HttpCodes, body \in Pages :
          /\ fetched' = Some([code |-> code, body |-> body])
          /\ IF ScrapePanics(body)
             THEN /\ spc' = "panicked"
                  /\ outcome' = "panic"
                  /\ scraped' = scraped
             ELSE /\ spc' = "lock"
                  /\ outcome' = "ok"
                  /\ scraped' = Some(ScrapeResult(body))
    /\ UNCHANGED << pureVars, now, last_api_request, status, clockLock, statusLock, deadline,
                    hpc, resp, chk, checks, fetches, lastInstalled, everOk,
                    late >>

\* mutant: the result is written without taking the status mutex
SchedLockStatusNoLock ==
    /\ spc = "lock"
    /\ spc' = "w_lines"
    /\ UNCHANGED << pureVars, now, last_api_request, status, clockLock, statusLock, deadline,
                    scraped, hpc, resp, histVars >>

\* Ok arm: state_clone.status.lock().unwrap()
SchedLockStatus ==
    /\ spc = "lock"
    /\ statusLock = Free
    /\ statusLock' = Sched
    /\ spc' = "w_lines"
    /\ UNCHANGED << pureVars, now, last_api_request, status, clockLock, deadline, scraped,
                    hpc, resp, histVars >>

\* app_status.schwebebahn = schwebebahn
SchedWriteLines ==
    /\ spc = "w_lines"
    /\ status' = [status EXCEPT !.schwebebahn = Unwrap(scraped).schwebebahn]
    /\ spc' = "w_elev"
    /\ UNCHANGED << pureVars, now, last_api_request, clockLock, statusLock, deadline, scraped,
                    hpc, resp, histVars >>

\* app_status.elevators = elevators
SchedWriteElevators ==
    /\ spc = "w_elev"
    /\ status' = [status EXCEPT !.elevators = Unwrap(scraped).elevators]
    /\ spc' = "w_time"
    /\ UNCHANGED << pureVars, now, last_api_request, clockLock, statusLock, deadline, scraped,
                    hpc, resp, histVars >>

\* mutant: the stamp is the time elapsed in the current interval
StampElapsed(t) == Some(t % IntervalMinutes)

\* Some(Utc::now())
Stamp(t) == Some(t)

\* mutant: the guard of status is not dropped at the end of the Ok arm
SchedWriteUpdatedKeepsGuard ==
    /\ spc = "w_time"
    /\ status' = [status EXCEPT !.last_updated = Stamp(now)]
    /\ spc' = "tick"
    /\ scraped' = None
    /\ lastInstalled' = [schwebebahn  |-> Unwrap(scraped).schwebebahn,
                         elevators    |-> Unwrap(scraped).elevators,
                         last_updated |-> Some(now)]
    /\ everOk' = TRUE
    /\ late' = (now - Unwrap(chk).at >= IntervalMinutes)
    /\ UNCHANGED << pureVars, now, last_api_request, clockLock, statusLock, deadline,
                    hpc, resp, chk, checks, fetches, outcome, fetched >>

\* app_status.last_updated = Some(Utc::now()); println!; the guard is dropped
SchedWriteUpdated ==
    /\ spc = "w_time"
    /\ status' = [status EXCEPT !.last_updated = Stamp(now)]
    /\ statusLock' = Free
    /\ spc' = "tick"
    /\ scraped' = None
    /\ lastInstalled' = [schwebebahn  |-> Unwrap(scraped).schwebebahn,
                         elevators    |-> Unwrap(scraped).elevators,
                         last_updated |-> Some(now)]
    /\ everOk' = TRUE
    /\ late' = (now - Unwrap(chk).at >= IntervalMinutes)
    /\ UNCHANGED << pureVars, now, last_api_request, clockLock, deadline, hpc, resp, chk, checks,
                    fetches, outcome, fetched >>

\* mutant: the timer wait returns at once, whatever the deadline
SchedTickNoWait ==
    /\ spc = "tick"
    /\ deadline' = deadline + IntervalMinutes
    /\ spc' = "check"
    /\ UNCHANGED << pureVars, now, last_api_request, status, clockLock, statusLock,
                    scraped, hpc, resp, histVars >>

\* mutant: the timer starts the next round while a fetch is still in flight
SchedTickOverFetch ==
    /\ spc \in {"tick", "fetching"}
    /\ now >= deadline
    /\ deadline' = deadline + IntervalMinutes
    /\ spc' = "check"
    /\ UNCHANGED << pureVars, now, last_api_request, status, clockLock, statusLock,
                    scraped, hpc, resp, histVars >>

\* interval.tick().await: completes once the deadline is reached; the next
\* deadline is one period after this one (the first deadline is the start)
SchedTick ==
    /\ spc = "tick"
    /\ now >= deadline
    /\ deadline' = deadline + IntervalMinutes
    /\ spc' = "check"
    /\ UNCHANGED << pureVars, now, last_api_request, status, clockLock, statusLock, scraped,
                    hpc, resp, histVars >>

\* a step of a handler call or of the scheduler task
ThreadStep ==
    \/ \E h \in Handlers : Request(h)
    \/ \E h \in Handlers : HLockClock(h)
    \/ \E h \in Handlers : HWriteClock(h)
    \/ \E h \in Handlers : HLockStatus(h)
    \/ \E h \in Handlers : HClone(h)
    \/ \E h \in Handlers : HRespond(h)
    \/ SchedLockClock
    \/ SchedGate
    \/ SchedSend
    \/ SchedFetchErr
    \/ SchedFetchOk
    \/ SchedLockStatus
    \/ SchedWriteLines
    \/ SchedWriteElevators
    \/ SchedWriteUpdated
    \/ SchedTick

Next ==
    \/ Advance
    \/ ThreadStep

Spec == Init /\ [][Next]_vars

\* the threads take their steps, and a thread that waits for a mutex gets it
\* if it is unlocked again and again
Fairness ==
    /\ \A h \in Handlers :
          /\ SF_vars(HLockClock(h))
          /\ WF_vars(HWriteClock(h))
          /\ SF_vars(HLockStatus(h))
          /\ WF_vars(HClone(h))
          /\ WF_vars(HRespond(h))
    /\ WF_vars(SchedGate)
    /\ WF_vars(SchedWriteLines)
    /\ WF_vars(SchedWriteElevators)
    /\ WF_vars(SchedWriteUpdated)

\* time passes, up to FairMaxTime
AdvanceFair ==
    /\ now + TimeStep <= FairMaxTime
    /\ now' = now + TimeStep
    /\ UNCHANGED << pureVars, last_api_request, status, clockLock, statusLock, schedVars,
                    hpc, resp, histVars >>

NextFair ==
    \/ AdvanceFair
    \/ ThreadStep

FairSpec == Init /\ [][NextFair]_vars /\ Fairness

\* ------------------------------------------------------- punctual threads
\* The steps of the threads take no time: time passes only while no handler
\* call is under way and the scheduler task is suspended, in the fetch or in
\* the timer wait before its deadline (or has ended), and the timer fires at
\* its deadline.
Quiescent ==
    /\ \A h \in Handlers : hpc[h] = "idle"
    /\ \/ spc = "fetching"
       \/ spc = "panicked"
       \/ spc = "tick" /\ now < deadline

AdvanceTimely ==
    /\ Quiescent
    /\ now + TimeStep <= TimelyMaxTime
    /\ now' = IF spc = "tick" /\ deadline < now + TimeStep
              THEN deadline
              ELSE now + TimeStep
    /\ UNCHANGED << pureVars, last_api_request, status, clockLock, statusLock, schedVars,
                    hpc, resp, histVars >>

NextTimely ==
    \/ AdvanceTimely
    \/ ThreadStep

TimelySpec == Init /\ [][NextTimely]_vars

\* ------------------------------------------------- parse_period on its own
\* the tokens of a period text, and the period texts up to MaxPeriodLen tokens
PeriodTokens == {"bis", " ", "10:00", "14:00"}
Periods == UNION { [1..n -> PeriodTokens] : n \in 0..MaxPeriodLen }

programVars == << now, last_api_request, status, clockLock, statusLock, spc,
                  deadline, scraped, hpc, resp, chk, checks, fetches, outcome,
                  fetched, lastInstalled, everOk, late >>

\* a call of parse_period with any period text
InitPeriod ==
    /\ arg \in { Some(p) : p \in Periods }
    /\ ret = None
    /\ now = 0
    /\ last_api_request = None
    /\ status = InitStatus
    /\ clockLock = Free
    /\ statusLock = Free
    /\ spc = "check"
    /\ deadline = 0
    /\ scraped = None
    /\ hpc = [h \in Handlers |-> "idle"]
    /\ resp = [h \in Handlers |-> None]
    /\ chk = None
    /\ checks = 0
    /\ fetches = 0
    /\ outcome = "none"
    /\ fetched = None
    /\ lastInstalled = InitStatus
    /\ everOk = FALSE
    /\ late = FALSE

\* the call returns
CallParsePeriod ==
    /\ ret = None
    /\ ret' = Some(parse_period(Unwrap(arg)))
    /\ UNCHANGED << arg, programVars >>

NextPeriod == CallParsePeriod

PeriodSpec == InitPeriod /\ [][NextPeriod]_vars

\* ---------------------------------------------------------------- claims
\* the scheduler is between the end of one cycle and the next gating decision
BetweenCycles == spc \in {"tick", "check", "gate"}

\* what the last gating check saw: no request time, or one older than the window
SawNoInterest ==
    /\ IsSome(chk)
    /\ \/ ~Unwrap(chk).set
       \/ Unwrap(chk).age >= WindowMinutes

\* what the last gating check saw: a request time inside the window
SawInterest ==
    /\ IsSome(chk)
    /\ Unwrap(chk).set
    /\ Unwrap(chk).age < WindowMinutes

\* C1: after a gating check that found the request time unset, or 20 minutes
\* or more in the past, the scheduler sends no fetch and writes nothing to the
\* snapshot until its next gating check: it goes straight to the timer wait
C1_NoFetchWithoutInterest ==
    SawNoInterest =>
        /\ fetches = 0
        /\ BetweenCycles
        /\ outcome = "none"
        /\ statusLock # Sched
        /\ status = lastInstalled

C1_Witness ==
    /\ IsSome(chk)
    /\ Unwrap(chk).set
    /\ Unwrap(chk).age = 25
    /\ spc = "tick"
    /\ fetches = 0

\* C2: after a gating check that found a request time less than 20 minutes in
\* the past, the scheduler sends exactly one fetch before its next gating
\* check: none is pending only until the request is sent, and never a second
C2_OneFetchWithInterest ==
    SawInterest =>
        /\ fetches = IF spc = "fetch" THEN 0 ELSE 1
        /\ BetweenCycles => outcome \in {"ok", "err"}

C2_Witness ==
    /\ IsSome(chk)
    /\ Unwrap(chk).set
    /\ Unwrap(chk).age = 5
    /\ spc = "tick"
    /\ fetches = 1

\* C3: whatever a handler call clones for its response is a snapshot written
\* in full: the last complete one, which is the snapshot from before the
\* cycle while a cycle is in progress and the new one once it is installed
C3_NoTornSnapshot ==
    [][ \A h \in Handlers :
          (hpc[h] = "cloning" /\ hpc'[h] = "respond")
              => resp'[h] = Some(lastInstalled') ]_vars

\* a response holding the snapshot from before the cycle, while the scheduler
\* is half way through writing the new one
C3_Witness ==
    \E h \in Handlers :
        /\ hpc[h] = "respond"
        /\ everOk
        /\ spc = "w_elev"
        /\ status.schwebebahn # lastInstalled.schwebebahn
        /\ resp[h] = Some(lastInstalled)

\* C4: after a cycle whose fetch returned an error, and until the scheduler
\* decides on the next cycle, the store holds the last snapshot installed
\* before it, line list, elevator list and last_updated alike, which is what
\* a handler call then clones; the scheduler is not writing to the store
C4_FailedCycleKeepsSnapshot ==
    outcome = "err" =>
        /\ BetweenCycles
        /\ statusLock # Sched
        /\ status = lastInstalled

C4_Witness ==
    /\ outcome = "err"
    /\ everOk
    /\ spc = "tick"
    /\ \E h \in Handlers : hpc[h] = "cloning"

\* a success status code
IsSuccess(code) == code \in 200..299

\* C5: a response with a non-success status code ends the cycle as an error:
\* its cycle never counts as successful and nothing of it is installed
C5_NonSuccessFailsCycle ==
    (IsSome(fetched) /\ ~IsSuccess(Unwrap(fetched).code)) => outcome = "err"

\* C6: a handler call writes the current time to last_api_request whatever the
\* scheduler is doing, clones the store as it is, returns with a request time
\* recorded, and none of its steps changes the store or sends a fetch
C6_HandlerOnlyArms ==
    [][ \A h \in Handlers :
          /\ (hpc[h] = "locked" /\ hpc'[h] = "wrote")
                => last_api_request' = Some(now)
          /\ (hpc[h] = "cloning" /\ hpc'[h] = "respond")
                => resp'[h] = Some(status)
          /\ (hpc[h] = "respond" /\ hpc'[h] = "idle")
                => IsSome(last_api_request)
          /\ hpc'[h] # hpc[h]
                => /\ status' = status
                   /\ fetches' = fetches
                   /\ spc' = spc ]_vars

\* a call that has overwritten an older request time and cloned the store
\* while a fetch is in flight
C6_Witness ==
    \E h \in Handlers :
        /\ hpc[h] = "respond"
        /\ now > 0
        /\ last_api_request = Some(now)
        /\ resp[h] = Some(status)
        /\ spc = "fetching"
        /\ IsSome(chk) /\ Unwrap(chk).set

\* C7: once last_updated is set, the line list and the elevator list of the
\* store are both non-empty
C7_NonEmptyAfterSuccess ==
    IsSome(status.last_updated) =>
        /\ status.schwebebahn # Empty
        /\ status.elevators # Empty

\* a snapshot installed from a page without any row
C7_Witness ==
    /\ IsSome(status.last_updated)
    /\ outcome = "ok"
    /\ BetweenCycles
    /\ Unwrap(fetched).body = Empty
    /\ Len(status.schwebebahn) = 1
    /\ Len(status.elevators) = 1

\* C8: last_updated is None as long as no cycle has installed its result, it
\* is set once one has, and a set last_updated is never made None again
C8_LastUpdatedSetBySuccessOnly ==
    [][ /\ ~everOk => status.last_updated = None
        /\ ~everOk' => status'.last_updated = None
        /\ everOk' => IsSome(status'.last_updated)
        /\ IsSome(status.last_updated) => IsSome(status'.last_updated) ]_vars

\* still None after a request, a skipped tick and a failed cycle
C8_Witness ==
    /\ ~everOk
    /\ status.last_updated = None
    /\ outcome = "err"
    /\ deadline > IntervalMinutes
    /\ \E h \in Handlers : hpc[h] = "respond"

\* C9: a step that replaces a set last_updated never replaces it by an earlier
\* time
C9_LastUpdatedMonotonic ==
    [][ (IsSome(status.last_updated) /\ IsSome(status'.last_updated))
            => Unwrap(status'.last_updated) >= Unwrap(status.last_updated) ]_vars

\* a second successful cycle about to stamp a later time
C9_Witness ==
    /\ spc = "w_time"
    /\ IsSome(status.last_updated)
    /\ now > Unwrap(status.last_updated)

\* a successful cycle whose page had no elevator row has been installed
NoElevatorRowInstalled ==
    /\ outcome = "ok"
    /\ BetweenCycles
    /\ ExtractElevators(Unwrap(fetched).body, Unwrap(fetched).body) = Empty

\* C10, as stated: the placeholder record has the fixed info text and every
\* other field empty
C10_PlaceholderOnlyInfo ==
    NoElevatorRowInstalled =>
        status.elevators =
            << ElevatorStatus(Empty, Empty, Empty, Empty, Empty,
                   <<"Alle", " ", "Aufzuege", " ", "sind", " ", "in", " ", "Betrieb">>) >>

\* C10, amended: the placeholder record has the fixed info text, the event
\* text "Keine Störungen", and station, start_time, end_time, location empty
C10_PlaceholderInfoAndEvent ==
    NoElevatorRowInstalled =>
        status.elevators =
            << ElevatorStatus(Empty, <<"Keine", " ", "Stoerungen">>, Empty, Empty, Empty,
                   <<"Alle", " ", "Aufzuege", " ", "sind", " ", "in", " ", "Betrieb">>) >>

C10_Witness ==
    /\ NoElevatorRowInstalled
    /\ Len(Unwrap(fetched).body) = 2
    /\ Len(status.elevators) = 1
    /\ status.schwebebahn # SchwebebahnPlaceholder

\* a successful cycle has been installed and the store holds its result
CycleInstalled ==
    /\ outcome = "ok"
    /\ BetweenCycles

\* the placeholder text occurs in the list
HasLinePlaceholder(lines) ==
    \E i \in 1..Len(lines) :
        lines[i] = <<"Keine", " ", "aktuellen", " ", "Stoerungen">>

\* C11: after a successful cycle whose page had no subway row the line list is
\* the placeholder text alone; after one whose page had subway rows the list
\* is those rows' entries and the placeholder text is not among them
C11_LinePlaceholder ==
    CycleInstalled =>
        LET rows == ExtractLines(Unwrap(fetched).body)
        IN  IF rows = Empty
            THEN status.schwebebahn = << <<"Keine", " ", "aktuellen", " ", "Stoerungen">> >>
            ELSE /\ status.schwebebahn = rows
                 /\ ~HasLinePlaceholder(status.schwebebahn)

\* the placeholder published from a page that has rows, none of them subway
C11_Witness ==
    /\ CycleInstalled
    /\ Len(Unwrap(fetched).body) = 2
    /\ ExtractLines(Unwrap(fetched).body) = Empty
    /\ HasLinePlaceholder(status.schwebebahn)

\* the rows of a document with a given discriminator, in document order
RowsOfMode(document, mode) ==
    SelectSeq(document, LAMBDA row : row.transportation = Some(mode))

\* one elevator record for each elevator row, in document order
RoutedElevators(document) ==
    LET rows == RowsOfMode(document, "elevator")
    IN  [i \in 1..Len(rows) |-> parse_elevator_status(rows[i], document)]

\* one line entry for each subway row, in document order
RoutedLines(document) ==
    LET rows == RowsOfMode(document, "subway")
    IN  [i \in 1..Len(rows) |-> parse_schwebebahn_status(rows[i])]

\* the lists of the cycle's result: on their way into the store, or in it
ResultLists == IF IsSome(scraped) THEN Unwrap(scraped) ELSE status

\* C12: whatever page the fetch returns, the cycle goes on to a result whose
\* elevator list has one record for each elevator row and whose line list has
\* one entry for each subway row, in document order, and nothing for any
\* other row (an empty list being replaced by its placeholder)
C12_RowRouting ==
    IsSome(fetched) =>
        LET document == Unwrap(fetched).body
            elevs == RoutedElevators(document)
            lines == RoutedLines(document)
        IN  /\ outcome = "ok"
            /\ ResultLists.elevators =
                   IF elevs = Empty THEN << ElevatorPlaceholder >> ELSE elevs
            /\ ResultLists.schwebebahn =
                   IF lines = Empty THEN SchwebebahnPlaceholder ELSE lines

\* the places of the separator in a period text
BisAt(p) == { i \in 1..Len(p) : p[i] = "bis" }

\* a text without whitespace at either end
IsTrimmed(s) == s = Empty \/ (~IsSpace(s[1]) /\ ~IsSpace(s[Len(s)]))

\* C13, as stated: parse_period returns two trimmed texts; (trim(p), "") for
\* a text without separator; (trim(a), trim(b)) whenever the text is a, the
\* separator, b
C13_PeriodSplit ==
    IsSome(ret) =>
        LET p == Unwrap(arg)
            r == Unwrap(ret)
        IN  /\ Len(r) = 2
            /\ IsTrimmed(r[1])
            /\ IsTrimmed(r[2])
            /\ BisAt(p) = {} => r = << Trim(p), Empty >>
            /\ \A i \in BisAt(p) :
                  r = << Trim(SubSeq(p, 1, i - 1)), Trim(SubSeq(p, i + 1, Len(p))) >>

\* C13, amended: parse_period returns two trimmed texts; (trim(p), "") for a
\* text without separator; else the trimmed text before the first separator
\* and the trimmed text between the first separator and the second one (or
\* the end of the text, when there is no second): text from a second
\* separator on is dropped
C13_PeriodSplitFirstTwo ==
    IsSome(ret) =>
        LET p == Unwrap(arg)
            r == Unwrap(ret)
        IN  /\ Len(r) = 2
            /\ IsTrimmed(r[1])
            /\ IsTrimmed(r[2])
            /\ BisAt(p) = {} => r = << Trim(p), Empty >>
            /\ BisAt(p) # {} =>
                  LET i == CHOOSE k \in BisAt(p) : \A m \in BisAt(p) : k <= m
                      later == { m \in BisAt(p) : m > i }
                      j == IF later = {} THEN Len(p) + 1
                           ELSE CHOOSE k \in later : \A m \in later : k <= m
                  IN  r = << Trim(SubSeq(p, 1, i - 1)), Trim(SubSeq(p, i + 1, j - 1)) >>

\* "10:00 bis 14:00" has been split
C13_Witness ==
    /\ arg = Some(<<"10:00", " ", "bis", " ", "14:00">>)
    /\ ret = Some(<< <<"10:00">>, <<"14:00">> >>)

\* the scheduler task is suspended at an await: in the fetch, or in the timer
SchedSuspended == spc \in {"fetching", "tick"}

\* C14: while the scheduler is suspended in the fetch or in the timer wait it
\* owns neither mutex, so a handler call that waits for a mutex then waits
\* for another handler call only
C14_NoLockAcrossAwait ==
    SchedSuspended =>
        /\ clockLock # Sched
        /\ statusLock # Sched
        /\ \A h \in Handlers :
              hpc[h] = "start" =>
                  \/ clockLock = Free
                  \/ \E g \in Handlers \ {h} : clockLock = Some(g)

\* a handler call reads the store while a fetch sent earlier is in flight
C14_Witness ==
    /\ spc = "fetching"
    /\ now >= TimeStep
    /\ \E h \in Handlers : hpc[h] = "cloning" /\ statusLock = Some(h)

\* the positions of the scheduler inside a cycle, after the request is sent
InCycle == spc \in {"fetching", "lock", "w_lines", "w_elev", "w_time"}

\* C15: a cycle whose fetch is in flight, or whose result is not yet
\* installed, is the one the scheduler task is in; the scheduler sends a
\* request only with no cycle unfinished, and one request per gating check
C15_CyclesSerialized ==
    /\ outcome = "pending" => spc = "fetching"
    /\ IsSome(scraped) => (outcome = "ok" /\ InCycle)
    /\ statusLock = Sched => (outcome = "ok" /\ InCycle)
    /\ spc = "fetch" => (outcome = "none" /\ scraped = None /\ fetches = 0)
    /\ fetches <= 1

\* a cycle about to start after an earlier one was installed
C15_Witness ==
    /\ spc = "fetch"
    /\ everOk
    /\ status = lastInstalled

\* C16, as stated: a gating check is made no sooner than one interval after
\* the gating check before it
C16_ChecksOneIntervalApart ==
    [][ (spc = "gate" /\ spc' # "gate" /\ IsSome(chk))
            => now - Unwrap(chk).at >= IntervalMinutes ]_vars

\* C16, amended: the first gating check is made at the start, before any
\* timer wait, and the first timer wait returns at once; gating check number
\* n, for n of 2 or more, is made no sooner than n - 2 intervals after the
\* start (the scheduler starts at time 0)
C16_ChecksFollowDeadlines ==
    IsSome(chk) =>
        /\ checks >= 1
        /\ Unwrap(chk).at >= (checks - 2) * IntervalMinutes

\* the third gating check, made one interval after the start
C16_Witness ==
    /\ checks = 3
    /\ IsSome(chk)
    /\ Unwrap(chk).at = IntervalMinutes

\* C17: no cycle stops the scheduler task: whatever a cycle met, the task is
\* still in its loop afterwards, on its way to the next gating check
C17_SchedulerKeepsRunning ==
    spc # "panicked"

\* the number of elevator rows among the first i rows of a document
ElevatorRowsUpTo(document, i) ==
    Len(RowsOfMode(SubSeq(document, 1, i), "elevator"))

\* C18: whatever cells or id an elevator row of the fetched page lacks, the
\* cycle succeeds and the row's record is in the result, with the empty
\* string in every field whose markup is missing
C18_MissingMarkupDegrades ==
    IsSome(fetched) =>
        LET document == Unwrap(fetched).body
        IN  \A i \in 1..Len(document) :
              document[i].transportation = Some("elevator") =>
                  /\ outcome = "ok"
                  /\ ElevatorRowsUpTo(document, i) <= Len(ResultLists.elevators)
                  /\ LET row == document[i]
                         e   == ResultLists.elevators[ElevatorRowsUpTo(document, i)]
                     IN  /\ row.station = None => e.station = Empty
                         /\ row.event = None => e.event = Empty
                         /\ row.period = None => (e.start_time = Empty /\ e.end_time = Empty)
                         /\ row.location = None => e.location = Empty
                         /\ row.id = None => e.info = Empty

\* the scheduler task waits for a mutex that is locked
SchedBlocked ==
    \/ spc = "check" /\ clockLock # Free
    \/ spc = "lock" /\ statusLock # Free

\* a handler call waits for a mutex that is locked
HandlerBlocked(h) ==
    \/ hpc[h] = "start" /\ clockLock # Free
    \/ hpc[h] = "wrote" /\ statusLock # Free

\* the owner of a mutex waits for a locked mutex itself
OwnerBlocked(owner) ==
    IF owner = Sched THEN SchedBlocked ELSE HandlerBlocked(Unwrap(owner))

\* no thread waits for a mutex whose owner waits for a mutex whose owner waits
WaitsEnd ==
    /\ clockLock # Free /\ OwnerBlocked(clockLock)
          => (statusLock # Free /\ ~OwnerBlocked(statusLock))
    /\ statusLock # Free /\ OwnerBlocked(statusLock)
          => (clockLock # Free /\ ~OwnerBlocked(clockLock))

RequestSinceLastCheck ==
    /\ IsSome(last_api_request)
    /\ IsSome(chk) => Unwrap(last_api_request) >= Unwrap(chk).at

\* C20: with punctual threads, and the last scrape cycle shorter than one
\* interval, a gating check that follows a request finds the request no more
\* than one interval old and goes on to a fetch
C20_RequestArmsRefresh ==
    [][ (spc = "gate" /\ spc' # "gate" /\ RequestSinceLastCheck /\ ~late)
            => /\ now - Unwrap(last_api_request) <= IntervalMinutes
               /\ spc' = "fetch" ]_vars

\* the fetch started by the gating check of the third deadline (the fourth
\* check, the first two deadlines being at time 0) for a request recorded
\* one interval before it, at the time of the check before
C20_Witness ==
    /\ spc = "fetch"
    /\ checks = 4
    /\ last_api_request = Some(IntervalMinutes)
    /\ Unwrap(chk).at = IntervalMinutes + IntervalMinutes
    /\ Unwrap(chk).age = IntervalMinutes

====
